---------------------------- MODULE Spec2Model ----------------------------
(*
  Model of labyrinth.c: main's pipeline load_map -> validate_map ->
  (optional) move_player -> print_map, with validate_map/deep_search also
  available step by step.

  Characters are modelled by their ASCII codes, so the code's comparisons
  (c >= '0' && c <= '9', player + '0') are computed as the code computes them.

  Scaling: MAX_MAP_DIM is 100 and the fgets buffer holds 1024 bytes in the
  source.  The model keeps both as named constants and evaluates them at the
  small values MaxDim and BufSize (BufSize - 1 > MaxDim, as 1023 > 100).
*)
EXTENDS Integers, Sequences, FiniteSets, TLC

VARIABLES
    file_ok,         \* whether fopen(filename, "r") succeeds
    file,            \* the file's bytes
    player,          \* main: int player (0..9)
    move_direction,  \* main: <<>> for NULL, <<s>> for the string s
    map,             \* main: Map map  [rows, cols, cells]
    pc,              \* main's position
    err,             \* main: ErrorCode err
    out,             \* bytes written to stdout
    errout,          \* the message written to stderr ("" for none)
    exit_code,       \* <<>> while running, <<n>> after return n
    hist,            \* history: the calls main made, <<function, result>>
    vst              \* validate_map's locals, when run step by step

vars == <<file_ok, file, player, move_direction, map, pc, err, out, errout,
          exit_code, hist, vst>>

-----------------------------------------------------------------------------
(* Bounds of the model *)

MaxDim == 2
BufSize == 4
MaxCells == 4
MaxFileLen == 5

-----------------------------------------------------------------------------
(* Program constants *)

MAX_MAP_DIM == MaxDim
BUFFER_SIZE == BufSize

Hash == 35
Dot == 46
Zero == 48
Nine == 57
One == 49
LF == 10
CR == 13

ERR_NONE == "ERR_NONE"
ERR_MAP_NOT_FOUND == "ERR_MAP_NOT_FOUND"
ERR_INVALID_MAP == "ERR_INVALID_MAP"
ERR_MULTIPLE_EMPTY_AREAS == "ERR_MULTIPLE_EMPTY_AREAS"
ERR_MOVE_FAILED == "ERR_MOVE_FAILED"

SetMin(S) == CHOOSE x \in S : \A y \in S : x <= y

-----------------------------------------------------------------------------
(* trim_newline, fgets, load_map *)

\* trim_newline as it would be if it stripped LF only
RECURSIVE trim_newline_OnlyLF(_)
trim_newline_OnlyLF(str) ==
    IF Len(str) > 0 /\ str[Len(str)] = LF
    THEN trim_newline_OnlyLF(SubSeq(str, 1, Len(str) - 1))
    ELSE str

RECURSIVE trim_newline(_)
trim_newline(str) ==
    IF Len(str) > 0 /\ (str[Len(str)] = LF \/ str[Len(str)] = CR)
    THEN trim_newline(SubSeq(str, 1, Len(str) - 1))
    ELSE str

\* The number of bytes one fgets(buffer, sizeof(buffer), fp) call consumes:
\* up to and including the first LF, at most sizeof(buffer) - 1.
FgetsLen(stream) ==
    LET lim == IF Len(stream) < BUFFER_SIZE - 1 THEN Len(stream) ELSE BUFFER_SIZE - 1
        nl  == {k \in 1..lim : stream[k] = LF}
    IN  IF nl = {} THEN lim ELSE SetMin(nl)

ValidChar(c) == ~(c # Hash /\ c # Dot /\ ~(c >= Zero /\ c <= Nine))

\* cells[row][1..n] = buffer[0..n-1]   (1-indexed storage)
StoreRow(cells, row, buffer, n) ==
    [p \in DOMAIN cells \cup {<<row, i>> : i \in 1..n} |->
        IF p[1] = row /\ p[2] \in 1..n THEN buffer[p[2]] ELSE cells[p]]

RECURSIVE LoadLoop(_, _)
LoadLoop(stream, m) ==
    IF stream = <<>> THEN [err |-> ERR_NONE, map |-> m]
    ELSE
    LET n      == FgetsLen(stream)
        buffer == trim_newline(SubSeq(stream, 1, n))
        rest   == SubSeq(stream, n + 1, Len(stream))
        len    == Len(buffer)
    IN  IF len = 0 THEN LoadLoop(rest, m)
        ELSE
        LET m1 == IF m.rows = 0 THEN [m EXCEPT !.cols = len] ELSE m
        IN  IF m.rows = 0 /\ (m1.cols < 1 \/ m1.cols > MAX_MAP_DIM)
            THEN [err |-> ERR_INVALID_MAP, map |-> m1]
            ELSE IF m.rows # 0 /\ len # m.cols
            THEN [err |-> ERR_INVALID_MAP, map |-> m1]
            ELSE
            LET bad    == {i \in 1..len : ~ValidChar(buffer[i])}
                stored == IF bad = {} THEN len ELSE SetMin(bad) - 1
                m2     == [m1 EXCEPT !.cells = StoreRow(@, m1.rows + 1, buffer, stored)]
                m3     == [m2 EXCEPT !.rows = @ + 1]
            IN  IF bad # {} THEN [err |-> ERR_INVALID_MAP, map |-> m2]
                ELSE IF m3.rows > MAX_MAP_DIM
                THEN [err |-> ERR_INVALID_MAP, map |-> m3]
                ELSE LoadLoop(rest, m3)

load_map(ok, stream, m) ==
    IF ~ok THEN [err |-> ERR_MAP_NOT_FOUND, map |-> m]
    ELSE LoadLoop(stream, [m EXCEPT !.rows = 0])

-----------------------------------------------------------------------------
(* is_player, is_empty, deep_search, validate_map *)

is_player(x, y, m, p) ==
    IF p = -1
    THEN m.cells[<<x, y>>] >= One /\ m.cells[<<x, y>>] <= Nine
    ELSE m.cells[<<x, y>>] = p + Zero

is_empty(x, y, m) == m.cells[<<x, y>>] = Dot \/ is_player(x, y, m, -1)

deep_dx == <<-1, 1, 0, 0>>
deep_dy == <<0, 0, -1, 1>>

\* validate_map's locals at entry; stack holds deep_search's frames
\* (x, y, loop index i), calls logs every deep_search invocation.
VInit ==
    [i |-> 1, j |-> 1, visited |-> {}, empty_area_count |-> 0,
     stack |-> <<>>, pending |-> FALSE, calls |-> <<>>, ret |-> "running"]

VIdle == [VInit EXCEPT !.ret = "idle"]

\* deep_search as it would be without visited[x][y] = 1
DeepCall_NoMark(v, x, y) ==
    [v EXCEPT !.stack = Append(@, [x |-> x, y |-> y, i |-> 0]),
              !.calls = Append(@, <<x, y>>)]

\* deep_search(x, y, visited, map) is entered: visited[x][y] = 1
DeepCall(v, x, y) ==
    [v EXCEPT !.visited = @ \cup {<<x, y>>},
              !.stack = Append(@, [x |-> x, y |-> y, i |-> 0]),
              !.calls = Append(@, <<x, y>>)]

\* One step of the innermost deep_search frame
DeepStep(m, v) ==
    LET d   == Len(v.stack)
        top == v.stack[d]
    IN  IF top.i >= 4 THEN [v EXCEPT !.stack = SubSeq(@, 1, d - 1)]
        ELSE
        LET nx == top.x + deep_dx[top.i + 1]
            ny == top.y + deep_dy[top.i + 1]
            v1 == [v EXCEPT !.stack[d].i = @ + 1]
        IN  IF nx < 1 \/ nx > m.rows \/ ny < 1 \/ ny > m.cols THEN v1
            ELSE IF <<nx, ny>> \notin v.visited /\ is_empty(nx, ny, m)
            THEN DeepCall(v1, nx, ny)
            ELSE v1

\* One step of validate_map's scan
VStep(m, v) ==
    IF v.stack # <<>> THEN DeepStep(m, v)
    ELSE IF v.pending THEN
        LET c == v.empty_area_count + 1
        IN  IF c > 1
            THEN [v EXCEPT !.empty_area_count = c, !.pending = FALSE,
                           !.ret = ERR_MULTIPLE_EMPTY_AREAS]
            ELSE [v EXCEPT !.empty_area_count = c, !.pending = FALSE, !.j = @ + 1]
    ELSE IF ~(v.i <= m.rows) THEN [v EXCEPT !.ret = ERR_NONE]
    ELSE IF ~(v.j <= m.cols) THEN [v EXCEPT !.i = @ + 1, !.j = 1]
    ELSE IF is_empty(v.i, v.j, m) /\ <<v.i, v.j>> \notin v.visited
    THEN DeepCall([v EXCEPT !.pending = TRUE], v.i, v.j)
    ELSE [v EXCEPT !.j = @ + 1]

RECURSIVE VRun(_, _)
VRun(m, v) == IF v.ret # "running" THEN v ELSE VRun(m, VStep(m, v))

validate_map(m) == VRun(m, VInit).ret

-----------------------------------------------------------------------------
(* print_map *)

RECURSIVE PrintFrom(_, _, _)
PrintFrom(m, i, j) ==
    IF ~(i <= m.rows) THEN <<>>
    ELSE IF ~(j <= m.cols) THEN <<LF>> \o PrintFrom(m, i + 1, 1)
    ELSE <<m.cells[<<i, j>>]>> \o PrintFrom(m, i, j + 1)

print_map(m) == PrintFrom(m, 1, 1)

-----------------------------------------------------------------------------
(* move_player *)

\* The row-major scan both loops of move_player make: the first cell
\* holding ch, or <<-1, -1>>.
RECURSIVE FindCell(_, _, _, _)
FindCell(m, ch, i, j) ==
    IF ~(i <= m.rows) THEN <<-1, -1>>
    ELSE IF ~(j <= m.cols) THEN FindCell(m, ch, i + 1, 1)
    ELSE IF m.cells[<<i, j>>] = ch THEN <<i, j>>
    ELSE FindCell(m, ch, i, j + 1)

DirDx(direction) ==
    IF direction = "up" THEN -1 ELSE IF direction = "down" THEN 1 ELSE 0

DirDy(direction) ==
    IF direction = "up" \/ direction = "down" THEN 0
    ELSE IF direction = "left" THEN -1
    ELSE IF direction = "right" THEN 1 ELSE 0

KnownDirection(direction) ==
    direction = "up" \/ direction = "down" \/ direction = "left" \/ direction = "right"

\* the placement scan as it would be if it started at column index 1 of a
\* 0-indexed row, i.e. skipped cells[1][1]
PlacePlayer_SkipsFirstCell(m, playerChar) ==
    LET spot == FindCell(m, Dot, 1, 2)
    IN  IF spot # <<-1, -1>>
        THEN [err |-> ERR_NONE, map |-> [m EXCEPT !.cells[spot] = playerChar]]
        ELSE [err |-> ERR_MOVE_FAILED, map |-> m]

PlacePlayer(m, playerChar) ==
    LET spot == FindCell(m, Dot, 1, 1)
    IN  IF spot # <<-1, -1>>
        THEN [err |-> ERR_NONE, map |-> [m EXCEPT !.cells[spot] = playerChar]]
        ELSE [err |-> ERR_MOVE_FAILED, map |-> m]

\* the move as it would be if the origin were cleared before the target is checked
StepPlayer_ClearsOriginFirst(m, playerChar, current, dx, dy) ==
    LET target_x == current[1] + dx
        target_y == current[2] + dy
        m1       == [m EXCEPT !.cells[current] = Dot]
    IN  IF target_x < 1 \/ target_x > m.rows \/ target_y < 1 \/ target_y > m.cols
        THEN [err |-> ERR_MOVE_FAILED, map |-> m1]
        ELSE IF m.cells[<<target_x, target_y>>] # Dot
        THEN [err |-> ERR_MOVE_FAILED, map |-> m1]
        ELSE [err |-> ERR_NONE,
              map |-> [m1 EXCEPT !.cells[<<target_x, target_y>>] = playerChar]]

\* the move as it would be if the origin were never cleared
StepPlayer_KeepsOrigin(m, playerChar, current, dx, dy) ==
    LET target_x == current[1] + dx
        target_y == current[2] + dy
    IN  IF target_x < 1 \/ target_x > m.rows \/ target_y < 1 \/ target_y > m.cols
        THEN [err |-> ERR_MOVE_FAILED, map |-> m]
        ELSE IF m.cells[<<target_x, target_y>>] # Dot
        THEN [err |-> ERR_MOVE_FAILED, map |-> m]
        ELSE [err |-> ERR_NONE,
              map |-> [m EXCEPT !.cells[<<target_x, target_y>>] = playerChar]]

StepPlayer(m, playerChar, current, dx, dy) ==
    LET target_x == current[1] + dx
        target_y == current[2] + dy
    IN  IF target_x < 1 \/ target_x > m.rows \/ target_y < 1 \/ target_y > m.cols
        THEN [err |-> ERR_MOVE_FAILED, map |-> m]
        ELSE IF m.cells[<<target_x, target_y>>] # Dot
        THEN [err |-> ERR_MOVE_FAILED, map |-> m]
        ELSE [err |-> ERR_NONE,
              map |-> [m EXCEPT !.cells[current] = Dot,
                                !.cells[<<target_x, target_y>>] = playerChar]]

move_player(m, p, direction) ==
    IF ~KnownDirection(direction) THEN [err |-> ERR_MOVE_FAILED, map |-> m]
    ELSE
    LET playerChar == p + Zero
        current    == FindCell(m, playerChar, 1, 1)
    IN  IF current[1] = -1 THEN PlacePlayer(m, playerChar)
        ELSE StepPlayer(m, playerChar, current, DirDx(direction), DirDy(direction))

-----------------------------------------------------------------------------
(* main, from the declaration of map on (argument parsing is not modelled) *)

Fail(msg) ==
    /\ errout' = msg
    /\ exit_code' = <<1>>
    /\ pc' = "exit"

LoadMap ==
    /\ pc = "load"
    /\ LET r == load_map(file_ok, file, map)
       IN  /\ map' = r.map
           /\ err' = r.err
           /\ hist' = Append(hist, <<"load_map", r.err>>)
           /\ IF r.err # ERR_NONE
              THEN Fail("Error loading map file")
              ELSE pc' = "validate" /\ UNCHANGED <<errout, exit_code>>
    /\ UNCHANGED <<file_ok, file, player, move_direction, out, vst>>

ValidateMap ==
    /\ pc = "validate"
    /\ vst.ret = "idle"
    /\ LET e == validate_map(map)
       IN  /\ err' = e
           /\ hist' = Append(hist, <<"validate_map", e>>)
           /\ IF e = ERR_MULTIPLE_EMPTY_AREAS
              THEN Fail("Map contains more than one empty area.")
              ELSE IF e # ERR_NONE
              THEN Fail("Map validation failed")
              ELSE /\ pc' = IF move_direction # <<>> THEN "move" ELSE "print"
                   /\ UNCHANGED <<errout, exit_code>>
    /\ UNCHANGED <<file_ok, file, player, move_direction, map, out, vst>>

\* main as it would be if move_player's result were not checked
MovePlayer_IgnoresError ==
    /\ pc = "move"
    /\ LET r == move_player(map, player, move_direction[1])
       IN  /\ map' = r.map
           /\ err' = r.err
           /\ hist' = Append(hist, <<"move_player", r.err>>)
           /\ pc' = "print"
    /\ UNCHANGED <<file_ok, file, player, move_direction, out, vst, errout, exit_code>>

MovePlayer ==
    /\ pc = "move"
    /\ LET r == move_player(map, player, move_direction[1])
       IN  /\ map' = r.map
           /\ err' = r.err
           /\ hist' = Append(hist, <<"move_player", r.err>>)
           /\ IF r.err # ERR_NONE
              THEN Fail("Move failed.")
              ELSE pc' = "print" /\ UNCHANGED <<errout, exit_code>>
    /\ UNCHANGED <<file_ok, file, player, move_direction, out, vst>>

PrintMap ==
    /\ pc = "print"
    /\ out' = out \o print_map(map)
    /\ hist' = Append(hist, <<"print_map", ERR_NONE>>)
    /\ exit_code' = <<0>>
    /\ pc' = "exit"
    /\ UNCHANGED <<file_ok, file, player, move_direction, map, err, errout, vst>>

\* validate_map run one step at a time (its scan loop and deep_search)
ValidateStep ==
    /\ pc = "validate"
    /\ vst.ret = "running"
    /\ vst' = VStep(map, vst)
    /\ UNCHANGED <<file_ok, file, player, move_direction, map, pc, err, out,
                   errout, exit_code, hist>>

-----------------------------------------------------------------------------
(* Inputs *)

Players == {0, 1}
DirectionStrings == {"up", "down", "left", "right", "jump"}
CellChars == {Hash, Dot, Zero, One}
\* 120 is 'x', one of the bytes load_map rejects
RawChars == {Hash, Dot, One, LF, CR, 120}

\* Indeterminate contents of the automatic variable map: rows and cols hold
\* some value, no cell has been written.
GarbageMaps == {[rows |-> g, cols |-> g, cells |-> <<>>] : g \in {-1, 3}}

\* The text of an r x c grid, every row ended by LF
GridText(r, c, f) ==
    [k \in 1..(r * (c + 1)) |->
        IF k % (c + 1) = 0 THEN LF
        ELSE f[((k - 1) \div (c + 1)) * c + ((k - 1) % (c + 1)) + 1]]

Shapes == {s \in (1..MaxCells) \X (1..MaxCells) : s[1] * s[2] <= MaxCells}

GridFiles ==
    UNION {{GridText(s[1], s[2], f) : f \in [1..(s[1] * s[2]) -> CellChars]} : s \in Shapes}

RawFiles == UNION {[1..n -> RawChars] : n \in 0..MaxFileLen}

InitCommon ==
    /\ map \in GarbageMaps
    /\ pc = "load"
    /\ err = ERR_NONE
    /\ out = <<>>
    /\ errout = ""
    /\ exit_code = <<>>
    /\ hist = <<>>
    /\ vst = VIdle

Init ==
    /\ \/ file_ok = TRUE /\ file \in GridFiles
       \/ file_ok = FALSE /\ file = <<>>
    /\ player \in Players
    /\ move_direction \in {<<>>} \cup {<<d>> : d \in DirectionStrings}
    /\ InitCommon

Next == LoadMap \/ ValidateMap \/ MovePlayer \/ PrintMap

Spec == Init /\ [][Next]_vars

\* The loader on arbitrary bytes
InitLoad ==
    /\ file_ok = TRUE
    /\ file \in RawFiles
    /\ player = 1
    /\ move_direction \in {<<>>, <<"right">>}
    /\ InitCommon

SpecLoad == InitLoad /\ [][Next]_vars

\* validate_map step by step, on every map load_map accepts
LoadedMaps ==
    {r.map : r \in {rr \in {load_map(TRUE, f, g) : f \in GridFiles, g \in GarbageMaps} :
                       rr.err = ERR_NONE}}

InitValidate ==
    /\ file_ok = TRUE
    /\ file = <<>>
    /\ player = 1
    /\ move_direction = <<>>
    /\ map \in LoadedMaps
    /\ pc = "validate"
    /\ err = ERR_NONE
    /\ out = <<>>
    /\ errout = ""
    /\ exit_code = <<>>
    /\ hist = <<<<"load_map", ERR_NONE>>>>
    /\ vst = VInit

NextValidate == ValidateStep

SpecValidate == InitValidate /\ [][NextValidate]_vars /\ WF_vars(NextValidate)

-----------------------------------------------------------------------------
(* Vocabulary of the properties, defined on sets and not by the code's scans *)

Range(f) == {f[k] : k \in DOMAIN f}

GridOf(m) == (1..m.rows) \X (1..m.cols)

Digits == Zero..Nine

\* Open cells as the specification defines them: '.' or any digit 0-9
OpenCells(m) == {p \in GridOf(m) : m.cells[p] = Dot \/ m.cells[p] \in Digits}

\* Open cells as is_empty's comment defines them: '.' or a digit 1-9
OpenCells19(m) == {p \in GridOf(m) : m.cells[p] = Dot \/ m.cells[p] \in One..Nine}

Abs(n) == IF n < 0 THEN -n ELSE n

Adjacent(p, q) == Abs(p[1] - q[1]) + Abs(p[2] - q[2]) = 1

RECURSIVE Closure(_, _)
Closure(S, R) ==
    LET R2 == R \cup {q \in S : \E r \in R : Adjacent(q, r)}
    IN  IF R2 = R THEN R ELSE Closure(S, R2)

\* The 4-connected components of a set of cells
Components(S) == {Closure(S, {p}) : p \in S}

RowMajorBefore(p, q) == p[1] < q[1] \/ (p[1] = q[1] /\ p[2] < q[2])

\* The row-major-first cell of a non-empty set of cells
RowMajorFirst(S) == CHOOSE p \in S : \A q \in S \ {p} : RowMajorBefore(p, q)

CellsHolding(m, ch) == {p \in GridOf(m) : m.cells[p] = ch}

PlayerChar == player + Zero

DirDelta ==
    [up |-> <<-1, 0>>, down |-> <<1, 0>>, left |-> <<0, -1>>, right |-> <<0, 1>>]

Cardinal == {"up", "down", "left", "right"}

\* The cell a present player is asked to move to
TargetOf(m, d) ==
    LET cur == RowMajorFirst(CellsHolding(m, PlayerChar))
    IN  <<cur[1] + DirDelta[d][1], cur[2] + DirDelta[d][2]>>

\* main's k-th call was of f and returned e
Stage(k, f, e) == Len(hist) >= k /\ hist[k] = <<f, e>>

LoadReturned(e) == Stage(1, "load_map", e)
ValidateReturned(e) == Stage(2, "validate_map", e)
MoveReturned(e) == Stage(3, "move_player", e)
Printed == \E k \in 1..Len(hist) : hist[k][1] = "print_map"

\* The step main takes from pc = "move" is the call of move_player
MoveCall == pc = "move"

-----------------------------------------------------------------------------
(* C1 *)

\* C1: validate_map returns success exactly when the cells that are '.' or a
\* digit 0-9 form zero or one 4-connected component, and MultipleEmptyAreas
\* exactly when they form two or more.
C1_ValidatorDecidesOpenRegions ==
    (Len(hist) = 2 /\ hist[2][1] = "validate_map") =>
        LET n == Cardinality(Components(OpenCells(map)))
        IN  /\ (hist[2][2] = ERR_NONE) <=> (n <= 1)
            /\ (hist[2][2] = ERR_MULTIPLE_EMPTY_AREAS) <=> (n >= 2)

\* What the code decides: the same with '0' counted as a wall.
ValidatorDecidesOpenRegions19 ==
    (Len(hist) = 2 /\ hist[2][1] = "validate_map") =>
        LET n == Cardinality(Components(OpenCells19(map)))
        IN  /\ (hist[2][2] = ERR_NONE) <=> (n <= 1)
            /\ (hist[2][2] = ERR_MULTIPLE_EMPTY_AREAS) <=> (n >= 2)

-----------------------------------------------------------------------------
(* C2 *)

\* The player is present and the requested target is off-grid, a wall or a
\* cell holding another player's digit.
BlockedTarget(m, d) ==
    /\ d \in Cardinal
    /\ CellsHolding(m, PlayerChar) # {}
    /\ LET t == TargetOf(m, d)
       IN  \/ t \notin GridOf(m)
           \/ m.cells[t] = Hash
           \/ m.cells[t] \in Digits \ {PlayerChar}

\* C2: a move of a present player to an off-grid, wall or other-player
\* target, and any move with an unknown direction string, returns MoveFailed
\* and leaves rows, cols and every cell as they were.
C2_FailedMoveChangesNothing ==
    [][(MoveCall /\ (move_direction[1] \notin Cardinal \/ BlockedTarget(map, move_direction[1])))
        => (err' = ERR_MOVE_FAILED /\ map' = map)]_vars

C2_Witness ==
    /\ MoveReturned(ERR_MOVE_FAILED)
    /\ BlockedTarget(map, move_direction[1])
    /\ TargetOf(map, move_direction[1]) \in GridOf(map)
    /\ map.cells[TargetOf(map, move_direction[1])] \in Digits

-----------------------------------------------------------------------------
(* C3 *)

\* The player is present and the requested target is an in-bounds '.' cell.
FreeTarget(m, d) ==
    /\ d \in Cardinal
    /\ CellsHolding(m, PlayerChar) # {}
    /\ TargetOf(m, d) \in GridOf(m)
    /\ m.cells[TargetOf(m, d)] = Dot

MoveApplied(m, m2, d) ==
    LET cur == RowMajorFirst(CellsHolding(m, PlayerChar))
        t   == TargetOf(m, d)
    IN  /\ m2.rows = m.rows /\ m2.cols = m.cols
        /\ DOMAIN m2.cells = DOMAIN m.cells
        /\ m2.cells[cur] = Dot
        /\ m2.cells[t] = PlayerChar
        /\ \A p \in DOMAIN m.cells \ {cur, t} : m2.cells[p] = m.cells[p]

\* C3 as claimed: a move of a present player onto an in-bounds '.' cell
\* succeeds, clears the origin, sets the target, changes no other cell, and
\* the digit is held by exactly one cell before and after.
C3_MoveKeepsExactlyOneToken ==
    [][(MoveCall /\ FreeTarget(map, move_direction[1]))
        => /\ err' = ERR_NONE
           /\ MoveApplied(map, map', move_direction[1])
           /\ Cardinality(CellsHolding(map, PlayerChar)) = 1
           /\ Cardinality(CellsHolding(map', PlayerChar)) = 1]_vars

\* C3 as amended: the same, with the number of cells holding the digit left
\* unchanged by the move (it is 1 after exactly when it was 1 before).
C3_MoveKeepsTokenCount ==
    [][(MoveCall /\ FreeTarget(map, move_direction[1]))
        => /\ err' = ERR_NONE
           /\ MoveApplied(map, map', move_direction[1])
           /\ Cardinality(CellsHolding(map', PlayerChar))
                = Cardinality(CellsHolding(map, PlayerChar))]_vars

C3_Witness ==
    /\ MoveReturned(ERR_NONE)
    /\ PlayerChar \in Range(file)
    /\ pc = "exit"
    /\ exit_code = <<0>>

-----------------------------------------------------------------------------
(* C4 *)

\* C4: with the player's digit nowhere in the grid and a direction among
\* up/down/left/right, move_player writes the digit into the row-major-first
\* '.' cell, changes nothing else and succeeds, whatever the direction; with
\* no '.' cell it returns MoveFailed and changes nothing.
C4_PlacementOnFirstDot ==
    [][(MoveCall /\ move_direction[1] \in Cardinal /\ CellsHolding(map, PlayerChar) = {})
        => IF CellsHolding(map, Dot) = {}
           THEN err' = ERR_MOVE_FAILED /\ map' = map
           ELSE LET first == RowMajorFirst(CellsHolding(map, Dot))
                IN  /\ err' = ERR_NONE
                    /\ map'.rows = map.rows /\ map'.cols = map.cols
                    /\ DOMAIN map'.cells = DOMAIN map.cells
                    /\ map'.cells[first] = PlayerChar
                    /\ \A p \in DOMAIN map.cells \ {first} :
                          map'.cells[p] = map.cells[p]]_vars

\* a placement happened in a grid that offered several '.' cells, the first
\* of them not in the first column
C4_Witness ==
    /\ MoveReturned(ERR_NONE)
    /\ PlayerChar \notin Range(file)
    /\ Cardinality(CellsHolding(map, Dot)) >= 1
    /\ Cardinality(CellsHolding(map, PlayerChar)) = 1
    /\ \E p \in CellsHolding(map, PlayerChar) :
          p[2] > 1 /\ \E q \in CellsHolding(map, Dot) : RowMajorBefore(p, q)

-----------------------------------------------------------------------------
(* C5 *)

\* C5: whenever load_map returns success, 1 <= rows <= MAX_MAP_DIM,
\* 1 <= cols <= MAX_MAP_DIM and every stored row has exactly cols cells.
C5_LoadedShape ==
    LoadReturned(ERR_NONE) =>
        /\ 1 <= map.rows /\ map.rows <= MAX_MAP_DIM
        /\ 1 <= map.cols /\ map.cols <= MAX_MAP_DIM
        /\ DOMAIN map.cells = GridOf(map)

\* What the code guarantees: the same shape, or no row at all.
LoadedShapeOrEmpty ==
    LoadReturned(ERR_NONE) =>
        \/ map.rows = 0 /\ DOMAIN map.cells = {}
        \/ /\ 1 <= map.rows /\ map.rows <= MAX_MAP_DIM
           /\ 1 <= map.cols /\ map.cols <= MAX_MAP_DIM
           /\ DOMAIN map.cells = GridOf(map)

-----------------------------------------------------------------------------
(* C6 *)

\* The text cut at every LF (the LF dropped)
RECURSIVE SplitAtLF(_)
SplitAtLF(s) ==
    IF s = <<>> THEN <<>>
    ELSE LET at == {k \in 1..Len(s) : s[k] = LF}
             k  == IF at = {} THEN Len(s) + 1 ELSE SetMin(at)
         IN  <<SubSeq(s, 1, k - 1)>> \o SplitAtLF(SubSeq(s, k + 1, Len(s)))

\* A line without the CRs that end it
StripCR(l) ==
    LET keep == {k \in 0..Len(l) : \A i \in (k + 1)..Len(l) : l[i] = CR}
    IN  SubSeq(l, 1, SetMin(keep))

IsNonBlank(l) == l # <<>>

NonBlankLines(s) ==
    LET ls == SplitAtLF(s)
    IN  SelectSeq([k \in 1..Len(ls) |-> StripCR(ls[k])], IsNonBlank)

WellFormed(s) ==
    LET L == NonBlankLines(s)
    IN  /\ Len(L) <= MAX_MAP_DIM
        /\ \A k \in 1..Len(L) :
              /\ Len(L[k]) >= 1 /\ Len(L[k]) <= MAX_MAP_DIM
              /\ Len(L[k]) = Len(L[1])
              /\ Range(L[k]) \subseteq {Hash, Dot} \cup Digits

RECURSIVE JoinLines(_)
JoinLines(L) == IF L = <<>> THEN <<>> ELSE Head(L) \o <<LF>> \o JoinLines(Tail(L))

\* C6: on well-formed text load_map succeeds and print_map of the loaded grid
\* emits the non-blank lines in order, CR/LF stripped, each followed by LF.
C6_LoadPrintRoundTrip ==
    WellFormed(file) =>
        /\ Len(hist) >= 1 => hist[1] = <<"load_map", ERR_NONE>>
        /\ Len(hist) = 1 => print_map(map) = JoinLines(NonBlankLines(file))
        /\ (Printed /\ move_direction = <<>>) => out = JoinLines(NonBlankLines(file))

\* two rows, one ended by CR LF, have been loaded and printed
C6_Witness ==
    /\ WellFormed(file)
    /\ Len(NonBlankLines(file)) = 2
    /\ CR \in Range(file)
    /\ Printed /\ move_direction = <<>>
    /\ out = JoinLines(NonBlankLines(file))

-----------------------------------------------------------------------------
(* C7 *)

\* C7: the grid is printed only after load_map, validate_map and (with a
\* direction) move_player returned success; after any error nothing is ever
\* printed and the exit code is non-zero; the exit code is 0 exactly when the
\* grid was printed.
C7_PrintOnlyAfterSuccess ==
    /\ (Printed \/ out # <<>>) =>
          /\ Stage(1, "load_map", ERR_NONE)
          /\ Stage(2, "validate_map", ERR_NONE)
          /\ IF move_direction # <<>>
             THEN Stage(3, "move_player", ERR_NONE) /\ Stage(4, "print_map", ERR_NONE)
             ELSE Stage(3, "print_map", ERR_NONE)
    /\ (\E k \in 1..Len(hist) : hist[k][2] # ERR_NONE) =>
          /\ ~Printed
          /\ out = <<>>
          /\ pc = "exit"
          /\ exit_code = <<1>>
    /\ (pc = "exit") <=> (exit_code # <<>>)
    /\ (exit_code = <<0>>) <=> Printed

\* a failed move ended the run with nothing printed
C7_Witness ==
    /\ Stage(3, "move_player", ERR_MOVE_FAILED)
    /\ pc = "exit"
    /\ exit_code = <<1>>
    /\ out = <<>>

-----------------------------------------------------------------------------
(* C8 *)

\* C8: in every state after validate_map returned success, also after any
\* move_player call, the cells that are '.' or a digit form one 4-connected
\* component: every two of them are joined by a path of such cells.  (A grid
\* without any open cell, which validate_map accepts with zero regions, is
\* not held against the claim.)
C8_OpenCellsConnectedAfterValidation ==
    ValidateReturned(ERR_NONE) =>
        \A p, q \in OpenCells(map) : q \in Closure(OpenCells(map), {p})

-----------------------------------------------------------------------------
(* C9 *)

NoRepeat(s) == \A a, b \in 1..Len(s) : a # b => s[a] # s[b]

DeepSearchSafe ==
    /\ NoRepeat(vst.calls)
    /\ \A k \in 1..Len(vst.calls) :
          /\ vst.calls[k] \in GridOf(map)
          /\ map.cells[vst.calls[k]] # Hash
    /\ \A k \in 2..Len(vst.stack) :
          Adjacent(<<vst.stack[k].x, vst.stack[k].y>>,
                   <<vst.stack[k - 1].x, vst.stack[k - 1].y>>)
    /\ Len(vst.calls) <= map.rows * map.cols

\* C9: deep_search is invoked at most once per cell and only on cells inside
\* the grid that are not walls, every nested call is on a neighbour of its
\* caller's cell, and validate_map terminates.
C9_FloodFillVisitsOnceAndTerminates ==
    [](DeepSearchSafe) /\ <>(vst.ret # "running")

\* a whole 2 x 2 ring of open cells has been searched and the scan returned
C9_Witness ==
    /\ vst.ret = ERR_NONE
    /\ Len(vst.calls) >= 4
    /\ vst.stack = <<>>

-----------------------------------------------------------------------------
(* C10 *)

\* C10: the grid a successful run prints is accepted when fed back as input:
\* load_map and validate_map both return success on it.
C10_OutputIsAccepted ==
    (pc = "exit" /\ exit_code = <<0>>) =>
        \A g \in GarbageMaps :
            LET r == load_map(TRUE, out, g)
            IN  r.err = ERR_NONE /\ validate_map(r.map) = ERR_NONE

=============================================================================
